---- MODULE Spec2Model ----
(***************************************************************************)
(* Sequential Racos (zoopt/algos/opt_algorithms/racos/sracos.py).          *)
(*                                                                         *)
(* Two drivers share the archive code:                                     *)
(*   SRacos.opt           the synchronous sampling loop                    *)
(*   SRacosTune           the asynchronous suggest()/complete() protocol   *)
(* A Solution is a record [x |-> coordinates, value |-> number].           *)
(* Python lists are sequences; Python's 0-based indices are kept in the    *)
(* operators that take or return an index (At reads position k).           *)
(***************************************************************************)
EXTENDS Integers, Sequences, FiniteSets, TLC

(* ------------------------------ bounds --------------------------------- *)
TrainSize == 4
PositiveSize == 2
ServerNum == 2
Budget == 6
MaxValue == 1

(* ------------------------- program constants --------------------------- *)
max_distinct_repeat_times == 100

\* The value of a Solution that has not been evaluated, and the "None" of an
\* optional number (terminal_value).
Unset == -1

Values == 0 .. MaxValue
\* One-dimensional search space with one point more than the archives hold,
\* so that a distinct sample exists while the archives are full.
Coords == { <<c>> : c \in 0 .. TrainSize }
Strategies == {"WR", "RR", "LM"}
\* np.isnan(result) or np.isinf(result) are told apart from numbers by kind.
Results == [kind : {"num"}, v : Values] \cup [kind : {"nan", "inf"}, v : {0}]

Sol(x, v) == [x |-> x, value |-> v]
None == Sol(<<>>, Unset)

At(iset, k) == iset[k + 1]
XsOf(iset) == { iset[k].x : k \in 1 .. Len(iset) }

(* --------------------------- archive code ------------------------------ *)

\* binary_search with its first comparison turned round.
RECURSIVE binary_search_reversed(_, _, _, _)
binary_search_reversed(iset, x, begin, end) ==
    IF x.value >= At(iset, begin).value THEN begin
    ELSE IF x.value >= At(iset, end).value THEN end + 1
    ELSE IF end = begin + 1 THEN end
    ELSE LET mid == begin + (end - begin) \div 2
         IN IF x.value <= At(iset, mid).value
            THEN binary_search_reversed(iset, x, begin, mid)
            ELSE binary_search_reversed(iset, x, mid, end)

\* binary_search answering end for end + 1 in its second comparison.
RECURSIVE binary_search_before_end(_, _, _, _)
binary_search_before_end(iset, x, begin, end) ==
    IF x.value <= At(iset, begin).value THEN begin
    ELSE IF x.value >= At(iset, end).value THEN end
    ELSE IF end = begin + 1 THEN end
    ELSE LET mid == begin + (end - begin) \div 2
         IN IF x.value <= At(iset, mid).value
            THEN binary_search_before_end(iset, x, begin, mid)
            ELSE binary_search_before_end(iset, x, mid, end)

\* binary_search answering begin for end when the two are adjacent.
RECURSIVE binary_search_adjacent_begin(_, _, _, _)
binary_search_adjacent_begin(iset, x, begin, end) ==
    IF x.value <= At(iset, begin).value THEN begin
    ELSE IF x.value >= At(iset, end).value THEN end + 1
    ELSE IF end = begin + 1 THEN begin
    ELSE LET mid == begin + (end - begin) \div 2
         IN IF x.value <= At(iset, mid).value
            THEN binary_search_adjacent_begin(iset, x, begin, mid)
            ELSE binary_search_adjacent_begin(iset, x, mid, end)

\* SRacos.binary_search / SRacosTune.binary_search (identical bodies).
RECURSIVE binary_search(_, _, _, _)
binary_search(iset, x, begin, end) ==
    IF x.value <= At(iset, begin).value THEN begin
    ELSE IF x.value >= At(iset, end).value THEN end + 1
    ELSE IF end = begin + 1 THEN end
    ELSE LET mid == begin + (end - begin) \div 2
         IN IF x.value <= At(iset, mid).value
            THEN binary_search(iset, x, begin, mid)
            ELSE binary_search(iset, x, mid, end)

\* list.insert(index, x)
Insert(iset, index, x) ==
    SubSeq(iset, 1, index) \o <<x>> \o SubSeq(iset, index + 1, Len(iset))

\* list[index] = x
SetAt(iset, index, x) == [iset EXCEPT ![index + 1] = x]

\* Solution.find_maximum(iset): the element of maximum value and its index,
\* the first one when several share the maximum.
find_maximum(iset) ==
    LET idx == CHOOSE k \in 0 .. Len(iset) - 1 :
                  /\ \A j \in 0 .. Len(iset) - 1 : At(iset, j).value <= At(iset, k).value
                  /\ \A j \in 0 .. k - 1 : At(iset, j).value < At(iset, k).value
    IN [ele |-> At(iset, idx), index |-> idx]

\* strategy_wr without the pop() after the insert.
strategy_wr_no_pop(iset, x, iset_type) ==
    IF iset_type = "pos"
    THEN LET index == binary_search(iset, x, 0, Len(iset) - 1)
             ins == Insert(iset, index, x)
         IN [iset |-> ins, out |-> ins[Len(ins)]]
    ELSE LET worst == find_maximum(iset)
         IN IF worst.ele.value > x.value
            THEN [iset |-> SetAt(iset, worst.index, x), out |-> worst.ele]
            ELSE [iset |-> iset, out |-> x]

\* strategy_wr popping the first element, pop(0), instead of the last.
strategy_wr_pop_first(iset, x, iset_type) ==
    IF iset_type = "pos"
    THEN LET index == binary_search(iset, x, 0, Len(iset) - 1)
             ins == Insert(iset, index, x)
         IN [iset |-> SubSeq(ins, 2, Len(ins)), out |-> ins[1]]
    ELSE LET worst == find_maximum(iset)
         IN IF worst.ele.value > x.value
            THEN [iset |-> SetAt(iset, worst.index, x), out |-> worst.ele]
            ELSE [iset |-> iset, out |-> x]

\* strategy_wr with ">=" for ">" in the negative branch.
strategy_wr_neg_ge(iset, x, iset_type) ==
    IF iset_type = "pos"
    THEN LET index == binary_search(iset, x, 0, Len(iset) - 1)
             ins == Insert(iset, index, x)
         IN [iset |-> SubSeq(ins, 1, Len(ins) - 1), out |-> ins[Len(ins)]]
    ELSE LET worst == find_maximum(iset)
         IN IF worst.ele.value >= x.value
            THEN [iset |-> SetAt(iset, worst.index, x), out |-> worst.ele]
            ELSE [iset |-> iset, out |-> x]

\* strategy_wr: the archive after the call and the element it returns.
strategy_wr(iset, x, iset_type) ==
    IF iset_type = "pos"
    THEN LET index == binary_search(iset, x, 0, Len(iset) - 1)
             ins == Insert(iset, index, x)
         IN [iset |-> SubSeq(ins, 1, Len(ins) - 1), out |-> ins[Len(ins)]]
    ELSE LET worst == find_maximum(iset)
         IN IF worst.ele.value > x.value
            THEN [iset |-> SetAt(iset, worst.index, x), out |-> worst.ele]
            ELSE [iset |-> iset, out |-> x]

\* strategy_rr: r is the value np.random.randint(0, len_iset) returned.
strategy_rr(iset, x, r) ==
    [iset |-> SetAt(iset, r, x), out |-> At(iset, r)]

\* distance(x, y): the sum of squares np.sqrt is applied to.  np.sqrt is
\* strictly increasing and strategy_lm only compares distances with ">", so
\* the squared distance is carried instead of its root.
RECURSIVE SumSq(_, _, _)
SumSq(x, y, k) ==
    IF k > Len(x) THEN 0
    ELSE (x[k] - y[k]) * (x[k] - y[k]) + SumSq(x, y, k + 1)

distance(x, y) == SumSq(x, y, 1)

\* The for-loop of strategy_lm from position k on.
RECURSIVE lm_scan(_, _, _, _, _)
lm_scan(iset, best_sol, k, farthest_dis, farthest_index) ==
    IF k >= Len(iset) THEN farthest_index
    ELSE LET dis == distance(At(iset, k).x, best_sol.x)
         IN IF dis > farthest_dis
            THEN lm_scan(iset, best_sol, k + 1, dis, k)
            ELSE lm_scan(iset, best_sol, k + 1, farthest_dis, farthest_index)

strategy_lm(iset, best_sol, x) ==
    LET farthest_index == lm_scan(iset, best_sol, 0, 0, 0)
    IN [iset |-> SetAt(iset, farthest_index, x), out |-> At(iset, farthest_index)]

\* min(iset, key=lambda x: x.get_value()): the first element of least value.
min_by_value(iset) ==
    LET idx == CHOOSE k \in 0 .. Len(iset) - 1 :
                  /\ \A j \in 0 .. Len(iset) - 1 : At(iset, k).value <= At(iset, j).value
                  /\ \A j \in 0 .. k - 1 : At(iset, j).value > At(iset, k).value
    IN At(iset, idx)

\* replace(iset, x, iset_type, strategy); r is the random index RR draws.
replace(iset, x, iset_type, strategy, r) ==
    IF strategy = "WR" THEN strategy_wr(iset, x, iset_type)
    ELSE IF strategy = "RR" THEN strategy_rr(iset, x, r)
    ELSE strategy_lm(iset, min_by_value(iset), x)

\* RacosCommon.selection(): the staging list sorted by value (sorted() is
\* stable), its first PositiveSize elements the positive archive, the rest,
\* up to train_size, the negative archive.
RECURSIVE sorted_by_value(_)
sorted_by_value(s) ==
    IF Len(s) = 0 THEN <<>>
    ELSE LET rest == sorted_by_value(SubSeq(s, 1, Len(s) - 1))
             x == s[Len(s)]
             n == Cardinality({ k \in 1 .. Len(rest) : rest[k].value <= x.value })
         IN Insert(rest, n, x)

Slice(s, from, to) ==
    SubSeq(s, from + 1, IF to < Len(s) THEN to ELSE Len(s))

selection_positive(d) == Slice(sorted_by_value(d), 0, PositiveSize)
selection_negative(d) == Slice(sorted_by_value(d), PositiveSize, TrainSize)

\* The values evaluated so far, kept in ascending order (a history of the
\* run, not a field of the program).
RECURSIVE InsertValue(_, _)
InsertValue(vs, v) ==
    IF Len(vs) = 0 THEN <<v>>
    ELSE IF v <= vs[1] THEN <<v>> \o vs
    ELSE <<vs[1]>> \o InsertValue(Tail(vs), v)

RECURSIVE ValuesOf(_)
ValuesOf(s) == IF Len(s) = 0 THEN <<>> ELSE <<s[1].value>> \o ValuesOf(Tail(s))

RECURSIVE SortedValues(_)
SortedValues(s) ==
    IF Len(s) = 0 THEN <<>> ELSE InsertValue(SortedValues(Tail(s)), s[1].value)

(* ------------------------------- state --------------------------------- *)
VARIABLES
    driver,          \* "sync": SRacos.opt, "async": SRacosTune
    pc,              \* "sampling" | "done" (sync); "running" | "failed" (async)
    strategy,        \* the strategy argument of opt / update_classifier
    terminal_value,  \* parameter terminal_value, Unset when None
    data,            \* self._data, the staging list
    positive_data,   \* self._positive_data
    negative_data,   \* self._negative_data
    best_solution,   \* self._best_solution
    i,                            \* opt: loop counter
    current_not_distinct_times,   \* opt: non-distinct counter
    init_num, complete_num, semaphore, live_num,   \* SRacosTune fields
    outstanding,     \* trials suggest() returned that are not completed yet,
                     \* oldest first
    evaluated,       \* history: all values recorded so far, ascending
    carried_over,    \* history: a distinct draw was evaluated while the
                     \* non-distinct counter was above zero
    last             \* history: the last call, what it returned and touched

vars == <<driver, pc, strategy, terminal_value, data, positive_data,
          negative_data, best_solution, i, current_not_distinct_times,
          init_num, complete_num, semaphore, live_num, outstanding,
          evaluated, carried_over, last>>

archive_vars == <<data, positive_data, negative_data, best_solution>>
sync_vars == <<i, current_not_distinct_times, carried_over>>
tune_vars == <<init_num, complete_num, semaphore, live_num, outstanding>>
config_vars == <<driver, strategy, terminal_value>>

NoCall == [op |-> "init", ret |-> "none", solution |-> None,
           bad_ele |-> None, neg_out |-> None]
Call(op, ret, solution, bad_ele, neg_out) ==
    [op |-> op, ret |-> ret, solution |-> solution,
     bad_ele |-> bad_ele, neg_out |-> neg_out]

\* The loop bound taken one too large.
iteration_num_off_by_one == Budget - TrainSize + 1

\* iteration_num = budget - train_size (opt line 50)
iteration_num == Budget - TrainSize

\* The staging lists init_attribute() is taken to leave: train_size distinct
\* samples, each evaluated, here the ones drawn in ascending order of value.
InitSamples ==
    { [k \in 1 .. TrainSize |-> Sol(<<k - 1>>, f[k])] :
        f \in { g \in [1 .. TrainSize -> Values] :
                   \A k \in 1 .. TrainSize - 1 : g[k] <= g[k + 1] } }

(* ------------------------ synchronous driver --------------------------- *)
InitSync ==
    /\ driver = "sync"
    /\ pc = "sampling"
    /\ strategy \in Strategies
    /\ terminal_value \in {Unset, 0}
    /\ data \in InitSamples
    /\ positive_data = selection_positive(data)
    /\ negative_data = selection_negative(data)
    /\ best_solution = positive_data[1]
    /\ i = 0
    /\ current_not_distinct_times = 0
    /\ init_num = 0 /\ complete_num = 0 /\ semaphore = 1 /\ live_num = 0
    /\ outstanding = <<>>
    /\ evaluated = SortedValues(data)
    /\ carried_over = FALSE
    /\ last = NoCall

\* update reading the best solution from the end of the positive archive.
update_best_last(pos, neg, solution, strat, r) ==
    LET p == replace(pos, solution, "pos", "WR", 0)
        n == replace(neg, p.out, "neg", strat, r)
    IN [pos |-> p.iset, neg |-> n.iset, best |-> p.iset[Len(p.iset)],
        bad_ele |-> p.out, neg_out |-> n.out]

\* update offering the new solution, not the evicted one, to the negative
\* archive.
update_offers_solution(pos, neg, solution, strat, r) ==
    LET p == replace(pos, solution, "pos", "WR", 0)
        n == replace(neg, solution, "neg", strat, r)
    IN [pos |-> p.iset, neg |-> n.iset, best |-> p.iset[1],
        bad_ele |-> p.out, neg_out |-> n.out]

\* update with the strategy handed to both replace calls.
update_same_strategy(pos, neg, solution, strat, r) ==
    LET p == replace(pos, solution, "pos", strat, r)
        n == replace(neg, p.out, "neg", strat, r)
    IN [pos |-> p.iset, neg |-> n.iset, best |-> p.iset[1],
        bad_ele |-> p.out, neg_out |-> n.out]

\* One archive update (opt lines 81-83, update_classifier lines 329-331):
\* the archives and best solution after it, with what each replace returned.
update(pos, neg, solution, strat, r) ==
    LET p == replace(pos, solution, "pos", "WR", 0)
        n == replace(neg, p.out, "neg", strat, r)
    IN [pos |-> p.iset, neg |-> n.iset, best |-> p.iset[1],
        bad_ele |-> p.out, neg_out |-> n.out]

\* while i < iteration_num fails: return self._best_solution
SyncReturn ==
    /\ driver = "sync" /\ pc = "sampling"
    /\ ~(i < iteration_num)
    /\ pc' = "done"
    /\ last' = Call("opt", "budget", None, None, None)
    /\ UNCHANGED <<config_vars, archive_vars, sync_vars, tune_vars, evaluated>>

\* the sampler returned no solution: "panic stop"
SyncSampleNone ==
    /\ driver = "sync" /\ pc = "sampling"
    /\ i < iteration_num
    /\ pc' = "done"
    /\ last' = Call("opt", "none", None, None, None)
    /\ UNCHANGED <<config_vars, archive_vars, sync_vars, tune_vars, evaluated>>

\* distinct_flag is False
SyncNotDistinct ==
    /\ driver = "sync" /\ pc = "sampling"
    /\ i < iteration_num
    /\ current_not_distinct_times' = current_not_distinct_times + 1
    /\ IF current_not_distinct_times' >= max_distinct_repeat_times
       THEN /\ pc' = "done"
            /\ last' = Call("opt", "not_distinct", None, None, None)
       ELSE /\ pc' = pc
            /\ last' = Call("opt", "continue", None, None, None)
    /\ UNCHANGED <<config_vars, archive_vars, i, carried_over, tune_vars, evaluated>>

\* a distinct solution was sampled: evaluate, replace, check the stops.
\* stop: the time budget has run out or stopping_criterion.check() is True.
SyncEvaluate ==
    /\ driver = "sync" /\ pc = "sampling"
    /\ i < iteration_num
    /\ \E x \in Coords \ XsOf(positive_data \o negative_data), v \in Values,
          r \in 0 .. Len(negative_data) - 1, stop \in BOOLEAN :
         LET solution == Sol(x, v)
             u == update(positive_data, negative_data, solution, strategy, r)
             \* the three checks after the update all return the best solution
             reason ==
                 IF stop THEN "stopped"
                 ELSE IF terminal_value # Unset /\ u.best.value <= terminal_value
                      THEN "stopped"
                 ELSE "continue"
         IN /\ (strategy # "RR" => r = 0)
            /\ positive_data' = u.pos
            /\ negative_data' = u.neg
            /\ best_solution' = u.best
            /\ evaluated' = InsertValue(evaluated, v)
            /\ carried_over' = (carried_over \/ current_not_distinct_times > 0)
            /\ last' = Call("opt", reason, solution, u.bad_ele, u.neg_out)
            /\ IF reason = "continue"
               THEN i' = i + 1 /\ pc' = pc
               ELSE i' = i /\ pc' = "done"
    /\ UNCHANGED <<config_vars, data, current_not_distinct_times, tune_vars>>

NextSync == SyncReturn \/ SyncSampleNone \/ SyncNotDistinct \/ SyncEvaluate

SpecSync == InitSync /\ [][NextSync]_vars

\* opt is one sequential loop that keeps running until it returns: a step
\* that can be taken is taken.
SpecSyncFair == InitSync /\ [][NextSync]_vars /\ WF_vars(NextSync)

(* ------------------------ asynchronous driver -------------------------- *)
\* SRacosTune.__init__
InitAsync ==
    /\ driver = "async"
    /\ pc = "running"
    /\ strategy = "WR"
    /\ terminal_value = Unset
    /\ data = <<>>
    /\ positive_data = <<>>
    /\ negative_data = <<>>
    /\ best_solution = None
    /\ i = 0
    /\ current_not_distinct_times = 0
    /\ init_num = 0 /\ complete_num = 0 /\ semaphore = 1 /\ live_num = 0
    /\ outstanding = <<>>
    /\ evaluated = <<>>
    /\ carried_over = FALSE
    /\ last = NoCall

\* The sampler is taken to hand out fresh points: the draw made when init_num
\* is n is the point <<n>>, distinct from every earlier one.
TrialPoint(n) == <<n>>

\* init_num grows with every call that passes the gate: the calls are cut off
\* once the servers could be filled and one more call refused.
SuggestCap == TrainSize + 1 + ServerNum + 1

\* if self.semaphore == 0: return
SuggestBlocked ==
    /\ driver = "async" /\ pc = "running"
    /\ semaphore = 0
    /\ last' = Call("suggest", "nothing", None, None, None)
    /\ UNCHANGED <<config_vars, pc, archive_vars, sync_vars, tune_vars, evaluated>>

\* SuggestInit with live_num increased before distinct_flag is looked at.
SuggestInit_counts_first ==
    /\ driver = "async" /\ pc = "running"
    /\ semaphore # 0
    /\ init_num < TrainSize
    /\ \/ /\ last' = Call("suggest", "FINISHED", None, None, None)
          /\ live_num' = live_num + 1
          /\ UNCHANGED <<init_num, complete_num, semaphore, outstanding>>
       \/ \E x \in {TrialPoint(init_num)} \ XsOf(data) :
            /\ live_num' = live_num + 1
            /\ init_num' = init_num + 1
            /\ outstanding' = Append(outstanding, x)
            /\ last' = Call("suggest", "init_sample", Sol(x, Unset), None, None)
            /\ UNCHANGED <<complete_num, semaphore>>
    /\ UNCHANGED <<config_vars, pc, archive_vars, sync_vars, evaluated>>

\* init_num < train_size: tune_init_attribute() draws a sample distinct from
\* the staged ones, or reports that it could not.
SuggestInit ==
    /\ driver = "async" /\ pc = "running"
    /\ semaphore # 0
    /\ init_num < TrainSize
    /\ \/ /\ last' = Call("suggest", "FINISHED", None, None, None)
          /\ UNCHANGED tune_vars
       \/ \E x \in {TrialPoint(init_num)} \ XsOf(data) :
            /\ live_num' = live_num + 1
            /\ init_num' = init_num + 1
            /\ outstanding' = Append(outstanding, x)
            /\ last' = Call("suggest", "init_sample", Sol(x, Unset), None, None)
            /\ UNCHANGED <<complete_num, semaphore>>
    /\ UNCHANGED <<config_vars, pc, archive_vars, sync_vars, evaluated>>

\* SuggestGate leaving the gate open.
SuggestGate_open ==
    /\ driver = "async" /\ pc = "running"
    /\ semaphore # 0
    /\ init_num = TrainSize
    /\ semaphore' = semaphore
    /\ init_num' = init_num + 1
    /\ last' = Call("suggest", "nothing", None, None, None)
    /\ UNCHANGED <<config_vars, pc, archive_vars, sync_vars, complete_num,
                   live_num, outstanding, evaluated>>

\* init_num == train_size: close the gate
SuggestGate ==
    /\ driver = "async" /\ pc = "running"
    /\ semaphore # 0
    /\ init_num = TrainSize
    /\ semaphore' = 0
    /\ init_num' = init_num + 1
    /\ last' = Call("suggest", "nothing", None, None, None)
    /\ UNCHANGED <<config_vars, pc, archive_vars, sync_vars, complete_num,
                   live_num, outstanding, evaluated>>

\* SuggestSample without the live_num < server_num test.
SuggestSample_no_limit ==
    /\ driver = "async" /\ pc = "running"
    /\ semaphore # 0
    /\ init_num > TrainSize
    /\ init_num < SuggestCap
    /\ \/ /\ last' = Call("suggest", "FINISHED", None, None, None)
          /\ UNCHANGED tune_vars
       \/ \E x \in {TrialPoint(init_num)} \ XsOf(positive_data \o negative_data) :
            /\ live_num' = live_num + 1
            /\ init_num' = init_num + 1
            /\ outstanding' = Append(outstanding, x)
            /\ last' = Call("suggest", "sample", Sol(x, Unset), None, None)
            /\ UNCHANGED <<complete_num, semaphore>>
    /\ UNCHANGED <<config_vars, pc, archive_vars, sync_vars, evaluated>>

\* live_num < server_num: sample_solution() draws a sample distinct from the
\* archives' members, or reports that it could not.
SuggestSample ==
    /\ driver = "async" /\ pc = "running"
    /\ semaphore # 0
    /\ init_num > TrainSize
    /\ live_num < ServerNum
    /\ init_num < SuggestCap
    /\ \/ /\ last' = Call("suggest", "FINISHED", None, None, None)
          /\ UNCHANGED tune_vars
       \/ \E x \in {TrialPoint(init_num)} \ XsOf(positive_data \o negative_data) :
            /\ live_num' = live_num + 1
            /\ init_num' = init_num + 1
            /\ outstanding' = Append(outstanding, x)
            /\ last' = Call("suggest", "sample", Sol(x, Unset), None, None)
            /\ UNCHANGED <<complete_num, semaphore>>
    /\ UNCHANGED <<config_vars, pc, archive_vars, sync_vars, evaluated>>

\* SuggestFull with live_num increased like init_num.
SuggestFull_counts ==
    /\ driver = "async" /\ pc = "running"
    /\ semaphore # 0
    /\ init_num > TrainSize
    /\ ~(live_num < ServerNum)
    /\ init_num < SuggestCap
    /\ init_num' = init_num + 1
    /\ live_num' = live_num + 1
    /\ last' = Call("suggest", "nothing", None, None, None)
    /\ UNCHANGED <<config_vars, pc, archive_vars, sync_vars, complete_num,
                   semaphore, outstanding, evaluated>>

\* none of the branches: solution stays None, init_num is still increased
SuggestFull ==
    /\ driver = "async" /\ pc = "running"
    /\ semaphore # 0
    /\ init_num > TrainSize
    /\ ~(live_num < ServerNum)
    /\ init_num < SuggestCap
    /\ init_num' = init_num + 1
    /\ last' = Call("suggest", "nothing", None, None, None)
    /\ UNCHANGED <<config_vars, pc, archive_vars, sync_vars, complete_num,
                   semaphore, live_num, outstanding, evaluated>>

suggest == SuggestBlocked \/ SuggestInit \/ SuggestGate \/ SuggestSample \/ SuggestFull

\* The trial a complete() call is for.  The calls are taken in the order the
\* trials were handed out: the driver never reads which trial a result is
\* for (worst-replace compares values alone), so another order only renames
\* the points.
NextCompleted == IF Len(outstanding) = 0 THEN {} ELSE {Head(outstanding)}

isnan_or_isinf(result) == result.kind \in {"nan", "inf"}

\* CompleteInvalid without the nan/inf test: the result is recorded like a
\* valid one while the initial batch is filling.
CompleteInvalid_recorded ==
    /\ driver = "async" /\ pc = "running"
    /\ \E x \in NextCompleted, result \in Results :
         /\ isnan_or_isinf(result)
         /\ outstanding' = Tail(outstanding)
         /\ complete_num' = complete_num + 1
         /\ live_num' = live_num - 1
         /\ semaphore' = IF complete_num' = TrainSize THEN 1 ELSE semaphore
         /\ data' = IF complete_num' < TrainSize
                    THEN Append(data, Sol(x, result.v)) ELSE data
         /\ last' = Call("complete", "discarded", Sol(x, Unset), None, None)
    /\ UNCHANGED <<config_vars, pc, positive_data, negative_data, best_solution,
                   sync_vars, init_num, evaluated>>

\* complete(solution, result) with an invalid result
CompleteInvalid ==
    /\ driver = "async" /\ pc = "running"
    /\ \E x \in NextCompleted, result \in Results :
         /\ isnan_or_isinf(result)
         /\ outstanding' = Tail(outstanding)
         /\ complete_num' = complete_num + 1
         /\ live_num' = live_num - 1
         /\ semaphore' = IF complete_num' = TrainSize THEN 1 ELSE semaphore
         /\ last' = Call("complete", "discarded", Sol(x, Unset), None, None)
    /\ UNCHANGED <<config_vars, pc, archive_vars, sync_vars, init_num, evaluated>>

\* complete(solution, result) while complete_num < train_size:
\* self._data.append(solution); self.selection()
CompleteStage ==
    /\ driver = "async" /\ pc = "running"
    /\ \E x \in NextCompleted, result \in Results :
         /\ ~isnan_or_isinf(result)
         /\ complete_num + 1 < TrainSize
         /\ outstanding' = Tail(outstanding)
         /\ complete_num' = complete_num + 1
         /\ live_num' = live_num - 1
         /\ data' = Append(data, Sol(x, result.v))
         /\ positive_data' = selection_positive(data')
         /\ negative_data' = selection_negative(data')
         /\ best_solution' = positive_data'[1]
         /\ evaluated' = InsertValue(evaluated, result.v)
         /\ last' = Call("complete", "staged", Sol(x, result.v), None, None)
    /\ UNCHANGED <<config_vars, pc, sync_vars, init_num, semaphore>>

\* complete(solution, result) from the train_size-th call on:
\* update_classifier(solution), and the gate reopens at the train_size-th.
\* binary_search reads iset[0] and find_maximum reads iset[max_index]: on an
\* empty archive the call raises and complete() does not return.
CompleteUpdate ==
    /\ driver = "async" /\ pc = "running"
    /\ \E x \in NextCompleted, result \in Results :
         /\ ~isnan_or_isinf(result)
         /\ complete_num + 1 >= TrainSize
         /\ outstanding' = Tail(outstanding)
         /\ complete_num' = complete_num + 1
         /\ live_num' = live_num - 1
         /\ evaluated' = InsertValue(evaluated, result.v)
         /\ LET solution == Sol(x, result.v)
            IN IF Len(positive_data) = 0
               THEN /\ pc' = "failed"
                    /\ last' = Call("complete", "raised", solution, None, None)
                    /\ UNCHANGED <<positive_data, negative_data, best_solution, semaphore>>
               ELSE IF Len(negative_data) = 0
               THEN LET p == replace(positive_data, solution, "pos", "WR", 0)
                    IN /\ pc' = "failed"
                       /\ positive_data' = p.iset
                       /\ last' = Call("complete", "raised", solution, p.out, None)
                       /\ UNCHANGED <<negative_data, best_solution, semaphore>>
               ELSE LET u == update(positive_data, negative_data, solution, strategy, 0)
                    IN /\ pc' = pc
                       /\ positive_data' = u.pos
                       /\ negative_data' = u.neg
                       /\ best_solution' = u.best
                       /\ semaphore' = IF complete_num' = TrainSize THEN 1 ELSE semaphore
                       /\ last' = Call("complete", "updated", solution, u.bad_ele, u.neg_out)
    /\ UNCHANGED <<config_vars, data, sync_vars, init_num>>

complete == CompleteInvalid \/ CompleteStage \/ CompleteUpdate

NextAsync == suggest \/ complete

SpecAsync == InitAsync /\ [][NextAsync]_vars

(* ------------------------ binary_search alone -------------------------- *)
\* The archives and solutions binary_search is applied to: every non-empty
\* list of at most SearchLen solutions in ascending order of value, and a
\* solution of every value.
SearchLen == TrainSize
SearchValues == 0 .. MaxValue + 2
SearchArchives ==
    UNION { { [k \in 1 .. n |-> Sol(<<k - 1>>, f[k])] :
                f \in { g \in [1 .. n -> SearchValues] :
                           \A k \in 1 .. n - 1 : g[k] <= g[k + 1] } } :
            n \in 1 .. SearchLen }

\* positive_data is the list searched, last.solution the solution looked
\* for, i the index returned.
InitSearch ==
    /\ driver = "search"
    /\ pc = "called"
    /\ strategy = "WR"
    /\ terminal_value = Unset
    /\ data = <<>>
    /\ positive_data \in SearchArchives
    /\ negative_data = <<>>
    /\ best_solution = None
    /\ i = 0
    /\ current_not_distinct_times = 0
    /\ init_num = 0 /\ complete_num = 0 /\ semaphore = 1 /\ live_num = 0
    /\ outstanding = <<>>
    /\ evaluated = <<>>
    /\ carried_over = FALSE
    /\ \E v \in SearchValues :
         last = Call("binary_search", "none", Sol(<<SearchLen>>, v), None, None)

\* index = self.binary_search(iset, x, 0, len(iset) - 1)
BinarySearchCall ==
    /\ driver = "search" /\ pc = "called"
    /\ pc' = "returned"
    /\ i' = binary_search(positive_data, last.solution, 0, Len(positive_data) - 1)
    /\ last' = [last EXCEPT !.ret = "index"]
    /\ UNCHANGED <<config_vars, archive_vars, current_not_distinct_times,
                   carried_over, tune_vars, evaluated>>

SpecSearch == InitSearch /\ [][BinarySearchCall]_vars

(* ---------------------------- both drivers ----------------------------- *)
Init == InitSync \/ InitAsync
Next == NextSync \/ NextAsync
Spec == Init /\ [][Next]_vars

(* ------------------------------ claims --------------------------------- *)
\* Number of times e occurs in the sequence s.
Count(s, e) == Cardinality({ k \in 1 .. Len(s) : s[k] = e })
\* The sequences a \o <<out>> and b \o <<in>> hold the same elements, each as
\* often: a is b with in put in and out taken out.
Exchanged(a, out, b, in) ==
    \A e \in {a[k] : k \in 1 .. Len(a)} \cup {b[k] : k \in 1 .. Len(b)} \cup {out, in} :
        Count(a \o <<out>>, e) = Count(b \o <<in>>, e)

IsSorted(iset) ==
    \A k \in 1 .. Len(iset) - 1 : iset[k].value <= iset[k + 1].value

\* C1: in both drivers the positive archive is sorted ascending by value
\* (value[i] <= value[i+1]) after initialization and after every replacement,
\* duplicates included.
C1_PositiveSorted == IsSorted(positive_data)

\* The asynchronous driver has inserted a solution into a positive archive
\* that already held its value, and evicted another one.
C1_Witness ==
    /\ driver = "async" /\ last.ret = "updated"
    /\ last.bad_ele # last.solution
    /\ \E j, k \in 1 .. Len(positive_data) :
         /\ j # k
         /\ positive_data[k] = last.solution
         /\ positive_data[j].value = last.solution.value

\* C2: every replace call on a filled archive leaves its length unchanged and
\* returns exactly one solution for the one offered: the archive and the
\* returned element together are the old archive and the offered element.
C2_CapacityFixed ==
    [][ /\ (last'.bad_ele # None =>
              /\ Len(positive_data') = Len(positive_data)
              /\ Exchanged(positive_data', last'.bad_ele, positive_data, last'.solution))
        /\ (last'.neg_out # None =>
              /\ Len(negative_data') = Len(negative_data)
              /\ Exchanged(negative_data', last'.neg_out, negative_data, last'.bad_ele))
      ]_vars

\* A random replacement has put the element evicted from the positive
\* archive into the negative one and taken another member out.
C2_Witness ==
    /\ strategy = "RR"
    /\ last.neg_out # None
    /\ last.neg_out # last.bad_ele
    /\ last.bad_ele # last.solution

\* C3: immediately after every archive update the Best Solution is the
\* element at index 0 of the positive archive, and its value is at most the
\* value of every member of both archives.
C3_BestIsFirst ==
    last.bad_ele # None =>
        /\ best_solution = positive_data[1]
        /\ \A k \in 1 .. Len(positive_data) : best_solution.value <= positive_data[k].value
        /\ \A k \in 1 .. Len(negative_data) : best_solution.value <= negative_data[k].value

\* C4: the values of the positive archive, of length k, are the k smallest
\* values among all solutions evaluated so far.
C4_PositiveHoldsSmallest ==
    ValuesOf(positive_data) = SubSeq(evaluated, 1, Len(positive_data))

\* A solution strictly better than the worst positive member has entered the
\* positive archive and pushed that member out.
C4_Witness ==
    /\ last.bad_ele # None
    /\ last.bad_ele.value > last.solution.value
    /\ \E k \in 1 .. Len(positive_data) : positive_data[k] = last.solution
    /\ Len(evaluated) > TrainSize

C7_CompleteNeverFails == pc # "failed"

\* C8: complete() with a NaN or infinite result leaves the staging set, both
\* archives, the Best Solution and the solution's value unchanged, adds one
\* to complete_num and takes one from live_num.
C8_InvalidResultDiscarded ==
    [][ (last'.op = "complete" /\ last'.ret = "discarded") =>
          /\ data' = data
          /\ positive_data' = positive_data
          /\ negative_data' = negative_data
          /\ best_solution' = best_solution
          /\ last'.solution.value = Unset
          /\ complete_num' = complete_num + 1
          /\ live_num' = live_num - 1
      ]_vars

\* An invalid result was reported during initialization, after a valid one
\* had been staged.
C8_Witness ==
    /\ last.op = "complete" /\ last.ret = "discarded"
    /\ Len(data) > 0
    /\ complete_num < TrainSize

\* C9: the gate is closed only while initialization trials are outstanding:
\* gate = 0 implies that fewer than train_size trials have been completed.
C9_GateClosedOnlyDuringInit == semaphore = 0 => complete_num < TrainSize

\* C10: the synchronous driver stops for non-distinct sampling only after
\* max_distinct_repeat_times consecutive non-distinct draws, that is with no
\* distinct draw evaluated since the counter left zero.
C10_StopsOnConsecutiveOnly ==
    (pc = "done" /\ last.ret = "not_distinct") => ~carried_over

\* C11: whatever the sampler draws and the evaluations return, the
\* synchronous loop eventually returns, and what it returns is the Best
\* Solution; it evaluates at most budget - train_size solutions in the
\* sampling phase; once it has returned nothing is evaluated and no archive
\* changes.
C11_SyncTerminates ==
    /\ <>(pc = "done")
    /\ [](Len(evaluated) - TrainSize <= Budget - TrainSize)
    /\ [](pc = "done" => best_solution = positive_data[1])
    /\ [][pc = "done" => UNCHANGED <<archive_vars, evaluated, pc>>]_vars

\* The loop ran out of budget: every one of the budget - train_size
\* evaluations was made, with non-distinct draws in between.
C11_Witness ==
    /\ pc = "done" /\ last.ret = "budget"
    /\ Len(evaluated) = Budget
    /\ current_not_distinct_times > 0

\* The archive iset becomes after, and gives up out, when x is offered to it
\* under strategy s, for some index a random replacement may draw.
ReplacedUnder(iset, x, iset_type, s, after, out) ==
    \E r \in 0 .. Len(iset) - 1 :
        LET res == replace(iset, x, iset_type, s, r)
        IN res.iset = after /\ res.out = out

\* C12 as stated: in every archive update the run's strategy picks the
\* displaced member of the positive archive and the displaced member of the
\* negative archive.
C12_StrategyOnBothArchives ==
    [][ last'.neg_out # None =>
          /\ ReplacedUnder(positive_data, last'.solution, "pos", strategy,
                           positive_data', last'.bad_ele)
          /\ ReplacedUnder(negative_data, last'.bad_ele, "neg", strategy,
                           negative_data', last'.neg_out)
      ]_vars

\* C12 as amended: in every archive update the positive archive is updated
\* by worst-replace whatever the run's strategy is, and the run's strategy
\* picks the displaced member of the negative archive only; the asynchronous
\* driver's strategy is always worst-replace.
C12_StrategyOnNegativeOnly ==
    [][ last'.neg_out # None =>
          /\ ReplacedUnder(positive_data, last'.solution, "pos", "WR",
                           positive_data', last'.bad_ele)
          /\ ReplacedUnder(negative_data, last'.bad_ele, "neg", strategy,
                           negative_data', last'.neg_out)
          /\ (driver = "async" => strategy = "WR")
      ]_vars

\* A run configured with LM has put a new solution at the head of the
\* positive archive and moved the evicted member to the negative archive.
C12_Witness ==
    /\ strategy = "LM"
    /\ last.neg_out # None
    /\ positive_data[1] = last.solution
    /\ last.bad_ele # last.solution
    /\ \E k \in 1 .. Len(negative_data) : negative_data[k] = last.bad_ele

\* The first member of iset, in scan order, whose distance to the point ref
\* is the largest (0-based index).
FarthestFrom(iset, ref) ==
    CHOOSE k \in 0 .. Len(iset) - 1 :
        /\ \A j \in 0 .. Len(iset) - 1 :
              distance(At(iset, j).x, ref) <= distance(At(iset, k).x, ref)
        /\ \A j \in 0 .. k - 1 :
              distance(At(iset, j).x, ref) < distance(At(iset, k).x, ref)

\* C13: under LM the member taken out of the negative archive is the first
\* one at maximal distance from the coordinates of the run's Best Solution,
\* read either as the Best Solution the step started with or as index 0 of
\* the positive archive at the moment of the replacement.
C13_LMFarthestFromBest ==
    [][ (strategy = "LM" /\ last'.neg_out # None) =>
          \E ref \in {best_solution.x, positive_data'[1].x} :
              LET k == FarthestFrom(negative_data, ref)
              IN /\ last'.neg_out = At(negative_data, k)
                 /\ negative_data' = SetAt(negative_data, k, last'.bad_ele)
      ]_vars

\* The largest value held by a non-empty archive.
MaxValueOf(iset) ==
    CHOOSE v \in { iset[k].value : k \in 1 .. Len(iset) } :
        \A k \in 1 .. Len(iset) : iset[k].value <= v

\* C14: under WR, offering a solution to the negative archive never raises
\* the archive's maximum value; a member of maximum value is replaced by
\* the offered solution, and returned, exactly when its value is strictly
\* greater than the offered one's; otherwise the archive stays as it was
\* and the offered solution is returned.
C14_NegativeWRNeverWorse ==
    [][ (strategy = "WR" /\ last'.neg_out # None) =>
          LET x == last'.bad_ele
              out == last'.neg_out
          IN /\ MaxValueOf(negative_data') <= MaxValueOf(negative_data)
             /\ IF MaxValueOf(negative_data) > x.value
                THEN /\ out.value = MaxValueOf(negative_data)
                     /\ \E k \in 1 .. Len(negative_data) :
                          /\ negative_data[k] = out
                          /\ negative_data' = [negative_data EXCEPT ![k] = x]
                ELSE /\ negative_data' = negative_data
                     /\ out = x
      ]_vars

\* The solution offered to the negative archive had exactly the archive's
\* maximum value: nothing was replaced and the offered solution came back.
C14_Witness ==
    /\ strategy = "WR"
    /\ last.neg_out # None
    /\ last.neg_out = last.bad_ele
    /\ last.bad_ele.value = MaxValueOf(negative_data)
    /\ \E k \in 1 .. Len(negative_data) : negative_data[k].value < last.bad_ele.value

\* C15: under WR, a solution whose value is strictly greater than the value
\* of the worst (last) member of the positive archive leaves the positive
\* archive as it was and is itself returned as the evicted element.
C15_WorseThanWorstBounces ==
    [][ (last'.bad_ele # None
           /\ last'.solution.value > positive_data[Len(positive_data)].value) =>
          /\ positive_data' = positive_data
          /\ last'.bad_ele = last'.solution
      ]_vars

\* A solution strictly worse than every positive member was offered to a
\* positive archive of more than one member, and came back.
C15_Witness ==
    /\ last.bad_ele # None
    /\ last.bad_ele = last.solution
    /\ Len(positive_data) > 1
    /\ last.solution.value > positive_data[Len(positive_data)].value

\* C16: when the sampler has no solution to give, the synchronous loop
\* returns with the Best Solution, both archives and the evaluation history
\* as they were, and suggest() returns the terminal marker with live_num,
\* init_num, the gate and the archives as they were.
C16_ExhaustionLeavesState ==
    [][ /\ (last'.op = "opt" /\ last'.ret = "none") =>
              /\ pc' = "done"
              /\ UNCHANGED <<archive_vars, evaluated, i, current_not_distinct_times>>
        /\ (last'.op = "suggest" /\ last'.ret = "FINISHED") =>
              UNCHANGED <<archive_vars, evaluated, live_num, init_num, semaphore,
                          complete_num, outstanding>>
      ]_vars

\* suggest() returned the terminal marker while initialization trials were
\* outstanding and some had been completed.
C16_Witness ==
    /\ last.op = "suggest" /\ last.ret = "FINISHED"
    /\ live_num > 0
    /\ complete_num > 0
    /\ init_num < TrainSize

\* C17: once there is a Best Solution, no step of either driver (a sampling
\* iteration, a suggest() or a complete() call) leaves a Best Solution of
\* greater value than before.
C17_BestNeverWorse ==
    [][ best_solution # None =>
          /\ best_solution' # None
          /\ best_solution'.value <= best_solution.value
      ]_vars

\* A complete() call of the asynchronous driver brought a solution strictly
\* better than every other member of the positive archive: it is the new
\* Best Solution.
C17_Witness ==
    /\ driver = "async"
    /\ last.op = "complete" /\ last.ret = "updated"
    /\ best_solution = last.solution
    /\ Len(positive_data) > 1
    /\ \A k \in 2 .. Len(positive_data) : positive_data[k].value > best_solution.value

\* The number of members of iset whose value is at most x's: in a list in
\* ascending order, the index of the first member of strictly larger value,
\* the length of the list when there is none.
FirstLarger(iset, x) ==
    Cardinality({ k \in 1 .. Len(iset) : iset[k].value <= x.value })

C19_InitThenGate ==
    [][ /\ (last'.op = "suggest" /\ last'.ret = "init_sample") =>
              Len(outstanding) + complete_num < TrainSize
        /\ (last'.op = "suggest" /\ last'.ret = "sample") =>
              /\ init_num > TrainSize
              /\ complete_num >= TrainSize
      ]_vars

\* The first post-initialization draw: exactly train_size trials have been
\* completed and the draw is the only trial outstanding.
C19_Witness ==
    /\ last.op = "suggest" /\ last.ret = "sample"
    /\ complete_num = TrainSize
    /\ Len(outstanding) = 1

\* C20: live_num is the number of Solutions suggest() has returned that
\* have not been completed, never negative, and a suggest() call that
\* returns nothing or the terminal marker leaves it as it was.
C20_LiveNumCountsOutstanding ==
    /\ [](live_num = Len(outstanding) /\ live_num >= 0)
    /\ [][ (last'.op = "suggest" /\ last'.ret \in {"nothing", "FINISHED"}) =>
              live_num' = live_num ]_vars

\* After initialization the sampler had nothing to give while one trial
\* was outstanding.
C20_Witness ==
    /\ last.op = "suggest" /\ last.ret = "FINISHED"
    /\ complete_num > TrainSize
    /\ live_num = 1

\* C21: in the synchronous driver, whose archives are separated when the
\* loop is entered, no member of the negative archive ever has a value
\* smaller than a member of the positive archive, under each of WR, RR and
\* LM.
C21_NegativeNeverBetter ==
    driver = "sync" =>
        \A n \in 1 .. Len(negative_data), p \in 1 .. Len(positive_data) :
            negative_data[n].value >= positive_data[p].value

\* Under RR or LM a new solution pushed a member out of the positive
\* archive into the negative one, where it replaced a member of strictly
\* greater value.
C21_Witness ==
    /\ driver = "sync"
    /\ strategy \in {"RR", "LM"}
    /\ last.neg_out # None
    /\ last.bad_ele # last.solution
    /\ \E k \in 1 .. Len(negative_data) : negative_data[k] = last.bad_ele
    /\ last.neg_out.value > last.bad_ele.value
    /\ last.bad_ele.value = positive_data[Len(positive_data)].value
====
